---- MODULE Spec2Model ----
(***************************************************************************)
(* A model of daily_agenda.py: the CalDAV fetch/normalise/sort step        *)
(* (fetch_events), the two renderers (render_html, render_plaintext) and   *)
(* the driver (main).                                                      *)
(*                                                                         *)
(* Text is a sequence of one-character strings.  A point in time is a      *)
(* record [kind, wall, off]: kind "date" is a bare calendar date (wall is  *)
(* the day number), kind "naive" a datetime without tzinfo, kind "aware" a *)
(* datetime whose tzinfo has UTC offset off, kind "none" is Python's None  *)
(* (or a missing attribute).  Wall time and offsets are counted in ticks,  *)
(* DayLen ticks to the day; the instant of an aware datetime is            *)
(* wall - off.                                                             *)
(***************************************************************************)
EXTENDS Integers, Sequences, FiniteSets, TLC

\* ----------------------------------------------------------------- state
\* fetch_events on its own: where the call is (f_pc), the zone (f_tz), the
\* calendars with what their search returns (f_cals), the outcome (f_out)
VARIABLES f_pc, f_tz, f_cals, f_out

\* the renderers on their own: where the call is (r_pc), the day sections
\* (r_days), the runs typed into the described event (r_runs), the two
\* documents (r_html, r_plain)
VARIABLES r_pc, r_days, r_runs, r_html, r_plain

\* main: the statement reached (pc), the parsed arguments (args), the zone
\* (tz), the names of the calendars (calendars), what each calendar holds for
\* the two search windows (store), the wall clock as an instant (clock), the
\* locals of main (today .. plaintext), what the two calls of fetch_events
\* returned (returned), the messages handed to the SMTP server (sent) and
\* how the process ended (exit)
VARIABLES pc, args, tz, calendars, store, clock, today, tomorrow,
          today_events, tomorrow_events, returned, now, days, calendars_used,
          html, plaintext, sent, exit

mvars == <<pc, args, tz, calendars, store, clock, today, tomorrow,
           today_events, tomorrow_events, returned, now, days, calendars_used,
           html, plaintext, sent, exit>>
fvars == <<f_pc, f_tz, f_cals, f_out>>
rvars == <<r_pc, r_days, r_runs, r_html, r_plain>>

\* ---------------------------------------------------------------- bounds
\* raw entries one search window holds, over all calendars
MaxItems == 3
\* calendars connect_calendars returns
NumCals == 2
\* ticks in a day
DayLen == 2

\* ------------------------------------------------------------ time values
None == [kind |-> "none", wall |-> 0, off |-> 0]
Date(d) == [kind |-> "date", wall |-> d, off |-> 0]
Naive(w) == [kind |-> "naive", wall |-> w, off |-> 0]
Aware(w, o) == [kind |-> "aware", wall |-> w, off |-> o]

\* UTC offsets detect_calendar_timezone can yield: "UTC" and one zone east of it
TzOffsets == {0, 1}

\* the instant (UTC ticks) of an aware datetime: aware datetimes compare by it
Instant(dt) == dt.wall - dt.off

\* dt.replace(tzinfo=tzinfo): same wall instant, now read in tzinfo
ReplaceTzinfo(dt, tzinfo) == Aware(dt.wall, tzinfo)

\* dt.astimezone(tzinfo): same instant, wall instant of tzinfo
AsTimezone(dt, tzinfo) == Aware(Instant(dt) + tzinfo, tzinfo)

\* datetime.combine(d, time.min, tzinfo=tzinfo)
DayStart(d, tzinfo) == Aware(d * DayLen, tzinfo)

\* datetime.datetime.now(tzinfo).date() for a instant reading (an instant)
DateOf(instant, tzinfo) == (instant + tzinfo) \div DayLen

\* ------------------------------------------------------------------- text
UntitledEvent == <<"U","n","t","i","t","l","e","d"," ","e","v","e","n","t">>
Unnamed == <<"(","u","n","n","a","m","e","d",")">>

\* ------------------------------------------------------------ raw entries
\* item.vobject_instance.vevent of one search result: vevent = FALSE is an
\* item without a VEVENT component; dtstart None is a VEVENT without DTSTART.
Entry(summary, location, description, dtstart, dtend) ==
    [vevent |-> TRUE, summary |-> summary, location |-> location,
     description |-> description, dtstart |-> dtstart, dtend |-> dtend]
NoVevent ==
    [vevent |-> FALSE, summary |-> <<>>, location |-> <<>>,
     description |-> <<>>, dtstart |-> None, dtend |-> None]

\* cal.name or "(unnamed)"
CalName(name) == IF name = <<>> THEN Unnamed ELSE name

\* all_day: a date that is not a datetime
IsAllDay(dtstart) == dtstart.kind = "date"

\* a timed start or end brought to tzinfo: naive values are read as tzinfo wall time
ToTz(dt, tzinfo) ==
    AsTimezone(IF dt.kind = "naive" THEN ReplaceTzinfo(dt, tzinfo) ELSE dt, tzinfo)

\* the event dict appended for one VEVENT that has a DTSTART
NormalizeEntry(item, cal_name, tzinfo) ==
    LET all_day == IsAllDay(item.dtstart)
        dtstart == IF all_day THEN item.dtstart ELSE ToTz(item.dtstart, tzinfo)
        dtend == IF all_day \/ item.dtend = None THEN item.dtend
                 ELSE ToTz(item.dtend, tzinfo)
    IN  [summary |-> IF item.summary = <<>> THEN UntitledEvent ELSE item.summary,
         location |-> item.location,
         description |-> item.description,
         start |-> dtstart,
         end |-> dtend,
         all_day |-> all_day,
         calendar |-> cal_name]

\* ------------------------------------------------------------------ sort
\* datetime.datetime.min.replace(tzinfo=tzinfo)
DatetimeMin(tzinfo) == Aware(0, tzinfo)

\* the sort key of fetch_events
SortKey(e, tzinfo) ==
    <<IF e.all_day THEN 0 ELSE 1,
      IF ~e.all_day THEN Instant(e.start) ELSE Instant(DatetimeMin(tzinfo))>>

\* tuple comparison k1 < k2
KeyLess(k1, k2) == k1[1] < k2[1] \/ (k1[1] = k2[1] /\ k1[2] < k2[2])

\* where a stable sort puts e into a sorted list: after every element that
\* is not greater than it
InsertPos(e, sorted, tzinfo) ==
    Cardinality({i \in 1..Len(sorted) : ~KeyLess(SortKey(e, tzinfo), SortKey(sorted[i], tzinfo))})

\* variant: a sort that is not stable (e goes before the entries of equal key)
InsertUnstable(e, sorted, tzinfo) ==
    LET p == Cardinality({i \in 1..Len(sorted) :
                            KeyLess(SortKey(sorted[i], tzinfo), SortKey(e, tzinfo))})
    IN  SubSeq(sorted, 1, p) \o <<e>> \o SubSeq(sorted, p + 1, Len(sorted))

Insert(e, sorted, tzinfo) ==
    LET p == InsertPos(e, sorted, tzinfo)
    IN  SubSeq(sorted, 1, p) \o <<e>> \o SubSeq(sorted, p + 1, Len(sorted))

RECURSIVE SortFrom(_, _, _)
SortFrom(events, sorted, tzinfo) ==
    IF events = <<>> THEN sorted
    ELSE SortFrom(Tail(events), Insert(Head(events), sorted, tzinfo), tzinfo)

\* events.sort(key=...): list.sort is stable
SortEvents(events, tzinfo) == SortFrom(events, <<>>, tzinfo)

\* args.date when --date is not given, and a date not yet computed
NoDate == -1
NoArgs == [preview |-> FALSE, date |-> NoDate]

\* the HTML document before render_html has run
NoDoc == [greeting |-> <<>>, sections |-> <<>>, timezone |-> <<>>, calendars_list |-> <<>>]

\* ---------------------------------------------------------- fetch_events
\* One calendar as one call of fetch_events meets it: its name, whether
\* cal.search returned (ok) or raised, and the items it returned.
Calendar(name, ok, results) == [name |-> name, ok |-> ok, results |-> results]

Acc(raised, events) == [raised |-> raised, events |-> events]

\* the body of "for item in results": an item without VEVENT is skipped
\* (AttributeError caught), vevent.dtstart of a VEVENT without DTSTART raises
\* AttributeError outside the try and leaves fetch_events
RECURSIVE ReadResults(_, _, _, _)
ReadResults(results, cal_name, tzinfo, events) ==
    IF results = <<>> THEN Acc(FALSE, events)
    ELSE LET item == Head(results)
         IN  IF ~item.vevent
               THEN ReadResults(Tail(results), cal_name, tzinfo, events)
             ELSE IF item.dtstart = None
               THEN Acc(TRUE, events)
             ELSE ReadResults(Tail(results), cal_name, tzinfo,
                              Append(events, NormalizeEntry(item, cal_name, tzinfo)))

\* variant: a search that raises is not caught
ReadCalendarAbort(cal, tzinfo, acc) ==
    IF acc.raised THEN acc
    ELSE IF ~cal.ok THEN Acc(TRUE, acc.events)
    ELSE ReadResults(cal.results, CalName(cal.name), tzinfo, acc.events)

\* one turn of "for cal in calendars": a search that raises is logged and
\* the loop continues with the next calendar
ReadCalendar(cal, tzinfo, acc) ==
    IF acc.raised THEN acc
    ELSE IF ~cal.ok THEN acc
    ELSE ReadResults(cal.results, CalName(cal.name), tzinfo, acc.events)

RECURSIVE ReadCalendars(_, _, _)
ReadCalendars(cals, tzinfo, acc) ==
    IF cals = <<>> THEN acc
    ELSE ReadCalendars(Tail(cals), tzinfo, ReadCalendar(Head(cals), tzinfo, acc))

\* fetch_events(calendars, target_date, tzinfo): raised, or the sorted events
fetch_events(cals, tzinfo) ==
    LET read == ReadCalendars(cals, tzinfo, Acc(FALSE, <<>>))
    IN  IF read.raised THEN Acc(TRUE, <<>>)
        ELSE Acc(FALSE, SortEvents(read.events, tzinfo))

\* ------------------------------------------------- what a search can return
A == <<"A">>
W == <<"W">>

\* timed entries of day d as a calendar of zone tzinfo can hold them: a naive
\* start in every slot of the day, and an aware UTC start with an end in the
\* first slot
TimedEntries(d, tzinfo) ==
    {Entry(A, <<>>, <<>>, Naive(d * DayLen + h), None) : h \in 0..(DayLen - 1)}
    \cup {Entry(<<>>, <<>>, <<>>, Aware(d * DayLen - tzinfo, 0), Aware(d * DayLen - tzinfo + 1, 0))}

AllDayEntries(d) ==
    {Entry(s, <<>>, <<>>, Date(d), Date(d + 1)) : s \in {<<>>, A}}

RawEntries(d, tzinfo) ==
    {NoVevent, Entry(A, <<>>, <<>>, None, None)}
    \cup AllDayEntries(d) \cup TimedEntries(d, tzinfo)

CalNames == {<<>>, W}

\* the calendars of one account before any entry is stored: the last one
\* has any name of CalNames, the ones before it are named W
EmptyCalendars ==
    {[i \in 1..NumCals |-> Calendar(IF i = NumCals THEN n ELSE W, TRUE, <<>>)]
       : n \in CalNames}

\* entries held by all calendars together
TotalItems(cals) ==
    LET RECURSIVE Sum(_)
        Sum(i) == IF i = 0 THEN 0 ELSE Len(cals[i].results) + Sum(i - 1)
    IN  Sum(Len(cals))

\* ------------------------------------------------------------------ state

\* ---------------------------------------------- fetch_events on its own
FetchInit ==
    /\ f_pc = "call"
    /\ f_tz \in TzOffsets
    /\ f_cals \in EmptyCalendars
    /\ f_out = Acc(FALSE, <<>>)
    /\ r_pc = "idle" /\ r_days = <<>> /\ r_runs = 0 /\ r_html = NoDoc /\ r_plain = <<>>
    /\ pc = "idle" /\ args = NoArgs /\ tz = 0 /\ calendars = <<>> /\ store = <<>>
    /\ clock = 0 /\ today = NoDate /\ tomorrow = NoDate
    /\ today_events = <<>> /\ tomorrow_events = <<>> /\ returned = <<>>
    /\ now = None /\ days = <<>> /\ calendars_used = <<>>
    /\ html = NoDoc /\ plaintext = <<>> /\ sent = <<>> /\ exit = "none"

\* the account's owner stores one more entry in a calendar
StoreEntry ==
    /\ f_pc = "call"
    /\ TotalItems(f_cals) < MaxItems
    /\ \E i \in 1..Len(f_cals), item \in RawEntries(1, f_tz) :
         /\ f_cals[i].ok
         /\ f_cals' = [f_cals EXCEPT ![i].results = Append(@, item)]
    /\ UNCHANGED <<f_pc, f_tz, f_out, rvars, mvars>>

\* a calendar that holds nothing becomes unreachable: its search will raise
SourceFails ==
    /\ f_pc = "call"
    /\ \E i \in 1..Len(f_cals) :
         /\ f_cals[i].ok
         /\ f_cals[i].results = <<>>
         /\ f_cals' = [f_cals EXCEPT ![i].ok = FALSE]
    /\ UNCHANGED <<f_pc, f_tz, f_out, rvars, mvars>>

FetchReturn ==
    /\ f_pc = "call"
    /\ ~fetch_events(f_cals, f_tz).raised
    /\ f_out' = fetch_events(f_cals, f_tz)
    /\ f_pc' = "returned"
    /\ UNCHANGED <<f_tz, f_cals, rvars, mvars>>

FetchRaise ==
    /\ f_pc = "call"
    /\ fetch_events(f_cals, f_tz).raised
    /\ f_out' = fetch_events(f_cals, f_tz)
    /\ f_pc' = "raised"
    /\ UNCHANGED <<f_tz, f_cals, rvars, mvars>>

FetchNext == StoreEntry \/ SourceFails \/ FetchReturn \/ FetchRaise


\* ----------------------------------------------- claims about fetch_events
Range(s) == {s[i] : i \in 1..Len(s)}

Count(s, x) == Cardinality({i \in 1..Len(s) : s[i] = x})

\* same elements, each as often
SameBag(s, t) ==
    /\ Len(s) = Len(t)
    /\ \A x \in Range(s) \cup Range(t) : Count(s, x) = Count(t, x)

\* an entry the normaliser can turn into an event
WellFormed(item) == item.vevent /\ item.dtstart # None

\* an entry whose start time is missing
Malformed(item) == item.vevent /\ item.dtstart = None

RECURSIVE ReadOrderFrom(_, _)
ReadOrderFrom(cals, tzinfo) ==
    IF cals = <<>> THEN <<>>
    ELSE LET cal == Head(cals)
             good == IF cal.ok THEN SelectSeq(cal.results, WellFormed) ELSE <<>>
         IN  [k \in 1..Len(good) |-> NormalizeEntry(good[k], CalName(cal.name), tzinfo)]
             \o ReadOrderFrom(Tail(cals), tzinfo)

\* the events of the well-formed entries of the calendars whose search
\* succeeded, in the order read: calendar order, then entry order
ReadOrder == ReadOrderFrom(f_cals, f_tz)

\* two events the sort key does not tell apart
SameRank(e1, e2) ==
    \/ e1.all_day /\ e2.all_day
    \/ ~e1.all_day /\ ~e2.all_day /\ Instant(e1.start) = Instant(e2.start)

\* C1: fetch_events returns every all-day event before every timed event,
\* the timed events in non-decreasing order of start instant, and the events
\* that compare equal (the all-day events; timed events of one start
\* instant) in the order they were read.
C1_CollateOrder ==
    f_pc = "returned" =>
        LET out == f_out.events
        IN  /\ Len(out) = Len(ReadOrder)
            /\ \A i, j \in 1..Len(out) :
                 i < j => /\ ~(out[j].all_day /\ ~out[i].all_day)
                          /\ (~out[i].all_day /\ ~out[j].all_day
                                => Instant(out[i].start) <= Instant(out[j].start))
            /\ \A e \in Range(ReadOrder) \cup Range(out) :
                 SelectSeq(out, LAMBDA x : SameRank(x, e))
                   = SelectSeq(ReadOrder, LAMBDA x : SameRank(x, e))

\* C1 witness: a timed entry was read before an all-day one, and two
\* different events that compare equal came back.
C1_Witness ==
    /\ f_pc = "returned"
    /\ Len(ReadOrder) >= 3
    /\ ~ReadOrder[1].all_day
    /\ \E i, j \in 1..Len(f_out.events) :
         /\ i < j
         /\ f_out.events[i] # f_out.events[j]
         /\ SameRank(f_out.events[i], f_out.events[j])
    /\ \E i \in 1..Len(f_out.events) : f_out.events[i].all_day

\* C4: an entry whose start time is missing is dropped and the call still
\* returns, with the events of every other well-formed entry.
C4_MalformedEntryDropped ==
    f_pc # "call" => f_pc = "returned" /\ SameBag(f_out.events, ReadOrder)

\* C5: a calendar whose search fails contributes nothing and does not end
\* the call; what is returned is, in sorted order, the events of the
\* calendars whose search succeeded.  (The call raises only for an entry
\* without start time that a successful search returned.)
C5_SourceUnavailable ==
    /\ f_pc = "raised" =>
         \E i \in 1..Len(f_cals) :
            f_cals[i].ok /\ \E j \in 1..Len(f_cals[i].results) : Malformed(f_cals[i].results[j])
    /\ f_pc = "returned" =>
         /\ SameBag(f_out.events, ReadOrder)
         /\ \A i, j \in 1..Len(f_out.events) :
              i < j => ~KeyLess(SortKey(f_out.events[j], f_tz), SortKey(f_out.events[i], f_tz))

\* C5 witness: the first calendar's search failed, a later calendar's events
\* were returned.
C5_Witness ==
    /\ f_pc = "returned"
    /\ ~f_cals[1].ok
    /\ \E k \in 2..Len(f_cals) : f_cals[k].ok /\ \E j \in 1..Len(f_cals[k].results) : WellFormed(f_cals[k].results[j])
    /\ Len(f_out.events) >= 2

\* ================================================================ rendering
\* truncation lengths of the two renderers
HtmlLimit == 200
PlainLimit == 150

\* the one-character ellipsis U+2026
Ellipsis == "(ellipsis)"

\* what str.strip() removes
IsSpace(c) == c \in {" ", "\n", "\t"}

\* the first index in lo..hi whose character is no whitespace, 0 when none
RECURSIVE FirstNonSpace(_, _, _)
FirstNonSpace(s, lo, hi) ==
    IF lo > hi THEN 0
    ELSE IF lo = hi THEN (IF IsSpace(s[lo]) THEN 0 ELSE lo)
    ELSE LET mid == (lo + hi) \div 2
             left == FirstNonSpace(s, lo, mid)
         IN  IF left # 0 THEN left ELSE FirstNonSpace(s, mid + 1, hi)

\* the last index in lo..hi whose character is no whitespace, 0 when none
RECURSIVE LastNonSpace(_, _, _)
LastNonSpace(s, lo, hi) ==
    IF lo > hi THEN 0
    ELSE IF lo = hi THEN (IF IsSpace(s[lo]) THEN 0 ELSE lo)
    ELSE LET mid == (lo + hi) \div 2
             right == LastNonSpace(s, mid + 1, hi)
         IN  IF right # 0 THEN right ELSE LastNonSpace(s, lo, mid)

\* s.strip()
Strip(s) ==
    LET first == FirstNonSpace(s, 1, Len(s))
    IN  IF first = 0 THEN <<>> ELSE SubSeq(s, first, LastNonSpace(s, 1, Len(s)))

\* re.sub(r"\n{2,}", "\n", s): of a run of newlines only the first stays
CollapseNewlines(s) ==
    LET kept == SelectSeq([i \in 1..Len(s) |-> i],
                          LAMBDA i : ~(s[i] = "\n" /\ i > 1 /\ s[i - 1] = "\n"))
    IN  [k \in 1..Len(kept) |-> s[kept[k]]]

\* s[:n]
Cut(s, n) == SubSeq(s, 1, IF Len(s) < n THEN Len(s) ELSE n)

\* the last index in lo..hi that holds c, 0 when none
RECURSIVE LastIndexOf(_, _, _, _)
LastIndexOf(s, c, lo, hi) ==
    IF lo > hi THEN 0
    ELSE IF lo = hi THEN (IF s[lo] = c THEN lo ELSE 0)
    ELSE LET mid == (lo + hi) \div 2
             right == LastIndexOf(s, c, mid + 1, hi)
         IN  IF right # 0 THEN right ELSE LastIndexOf(s, c, lo, mid)

\* s.rsplit(" ", 1)[0]: s up to its last space, all of s when it has none
RSplitSpace(s) ==
    LET p == LastIndexOf(s, " ", 1, Len(s))
    IN  IF p = 0 THEN s ELSE SubSeq(s, 1, p - 1)

\* variant: the cut is not moved back to a space
TruncateDescriptionHardCut(description, n) ==
    LET desc == CollapseNewlines(Strip(description))
    IN  IF Len(desc) > n THEN Append(Cut(desc, n), Ellipsis) ELSE desc

\* the description as render_event_row shortens it, for a limit of n
\* characters: strip, collapse newlines, cut at the last space before n
TruncateDescription(description, n) ==
    LET desc == CollapseNewlines(Strip(description))
    IN  IF Len(desc) > n THEN Append(RSplitSpace(Cut(desc, n)), Ellipsis) ELSE desc

\* html.escape(text): the five characters it replaces become entities
EscChar(c) ==
    CASE c = "&" -> "&amp;"
      [] c = "<" -> "&lt;"
      [] c = ">" -> "&gt;"
      [] c = "\"" -> "&quot;"
      [] c = "'" -> "&#x27;"
      [] OTHER -> c

esc(text) == [i \in 1..Len(text) |-> EscChar(text[i])]

\* .replace("\n", "<br>")
NewlinesToBr(text) == [i \in 1..Len(text) |-> IF text[i] = "\n" THEN "<br>" ELSE text[i]]

\* strftime("%-I:%M %p"): the time of day, the date is dropped
format_time(dt) == ToString(dt.wall % DayLen)

\* strftime of a date
DateStr(d) == ToString(d)

Part(tag, text) == [tag |-> tag, text |-> text]
Line(tag, time, text) == [tag |-> tag, time |-> time, text |-> text]

\* the time column of an HTML row
TimeCell(e, target_date) ==
    IF e.all_day THEN <<"All day", DateStr(target_date)>>
    ELSE IF e.end # None THEN <<format_time(e.start), "(en dash)<br>", format_time(e.end)>>
    ELSE <<format_time(e.start)>>

\* the detail column of an HTML row: summary, location if any, description
\* if any, calendar name
DetailParts(e) ==
    <<Part("summary", esc(e.summary))>>
    \o (IF e.location # <<>> THEN <<Part("location", esc(e.location))>> ELSE <<>>)
    \o (IF e.description # <<>>
          THEN <<Part("description",
                      NewlinesToBr(esc(TruncateDescription(e.description, HtmlLimit))))>>
          ELSE <<>>)
    \o <<Part("calendar", esc(e.calendar))>>

render_event_row(e, target_date) ==
    [time |-> TimeCell(e, target_date),
     bar |-> IF e.all_day THEN "#34a853" ELSE "#4285f4",
     parts |-> DetailParts(e)]

NothingScheduledRow ==
    [time |-> <<>>, bar |-> "", parts |-> <<Part("placeholder", <<>>)>>]

\* day_sections are (date, events, label) tuples
render_day_section(events, target_date, label) ==
    [label |-> esc(label),
     date |-> DateStr(target_date),
     rows |-> IF events = <<>> THEN <<NothingScheduledRow>>
              ELSE [i \in 1..Len(events) |-> render_event_row(events[i], target_date)]]

\* code points of the characters calendar names are made of
CodePoint(c) ==
    CASE c = "(" -> 40
      [] c = ")" -> 41
      [] c = "A" -> 65
      [] c = "W" -> 87
      [] OTHER -> 97

\* str < str
RECURSIVE StrLess(_, _)
StrLess(a, b) ==
    IF b = <<>> THEN FALSE
    ELSE IF a = <<>> THEN TRUE
    ELSE IF CodePoint(Head(a)) # CodePoint(Head(b))
      THEN CodePoint(Head(a)) < CodePoint(Head(b))
    ELSE StrLess(Tail(a), Tail(b))

\* sorted(S) for a set of strings
RECURSIVE SortedNames(_)
SortedNames(S) ==
    IF S = {} THEN <<>>
    ELSE LET least == CHOOSE x \in S : \A y \in S \ {x} : StrLess(x, y)
         IN  <<least>> \o SortedNames(S \ {least})

render_html(day_sections, timezone, display_name, names_used) ==
    [greeting |-> IF display_name # <<>> THEN esc(display_name) \o <<", here">>
                  ELSE <<"Here">>,
     sections |-> [i \in 1..Len(day_sections) |->
                     render_day_section(day_sections[i][2], day_sections[i][1], day_sections[i][3])],
     timezone |-> esc(timezone),
     calendars_list |-> LET names == SortedNames(Range(names_used))
                        IN  [i \in 1..Len(names) |-> esc(names[i])]]

\* variant: the location line is written also when the location is empty
EventLinesLocationAlways(e) ==
    <<Line("event",
           IF e.all_day THEN <<"All day">>
           ELSE IF e.end # None
             THEN <<format_time(e.start), "(en dash)", format_time(e.end)>>
           ELSE <<format_time(e.start)>>,
           e.summary)>>
    \o <<Line("location", <<>>, e.location)>>
    \o (IF e.description # <<>>
          THEN <<Line("description", <<>>, Cut(Strip(e.description), PlainLimit))>>
          ELSE <<>>)
    \o <<Line("calendar", <<>>, e.calendar), Line("blank", <<>>, <<>>)>>

\* the lines render_plaintext appends for one event
EventLines(e) ==
    <<Line("event",
           IF e.all_day THEN <<"All day">>
           ELSE IF e.end # None
             THEN <<format_time(e.start), "(en dash)", format_time(e.end)>>
           ELSE <<format_time(e.start)>>,
           e.summary)>>
    \o (IF e.location # <<>> THEN <<Line("location", <<>>, e.location)>> ELSE <<>>)
    \o (IF e.description # <<>>
          THEN <<Line("description", <<>>, Cut(Strip(e.description), PlainLimit))>>
          ELSE <<>>)
    \o <<Line("calendar", <<>>, e.calendar), Line("blank", <<>>, <<>>)>>

RECURSIVE AllEventLines(_)
AllEventLines(events) ==
    IF events = <<>> THEN <<>>
    ELSE EventLines(Head(events)) \o AllEventLines(Tail(events))

DayLines(day) ==
    <<Line("heading", <<DateStr(day[1])>>, day[3]),
      Line("rule40", <<>>, <<>>),
      Line("blank", <<>>, <<>>)>>
    \o (IF day[2] = <<>> THEN <<Line("placeholder", <<>>, <<>>)>>
        ELSE AllEventLines(day[2]))
    \o <<Line("blank", <<>>, <<>>)>>

RECURSIVE AllDayLines(_)
AllDayLines(day_sections) ==
    IF day_sections = <<>> THEN <<>> ELSE DayLines(Head(day_sections)) \o AllDayLines(Tail(day_sections))

render_plaintext(day_sections, timezone) ==
    <<Line("title", <<>>, <<>>), Line("rule50", <<>>, <<>>), Line("blank", <<>>, <<>>)>>
    \o AllDayLines(day_sections)
    \o <<Line("timezone", <<>>, timezone), Line("blank", <<>>, <<>>)>>

\* ------------------------------------------------- the renderers on their own
\* rows one day section holds
MaxRows == 2
\* runs of one character a description is typed in
MaxRuns == 3

Today == <<"T","o","d","a","y">>
Tomorrow == <<"T","o","m","o","r","r","o","w">>
Labels == <<Today, Tomorrow>>

\* timezone identifier of a UTC offset
TzName(tzinfo) == IF tzinfo = 0 THEN <<"U","T","C">> ELSE <<"E","t","c","/","G","M","T","-","1">>

Event(summary, location, description, start, end, calendar) ==
    [summary |-> summary, location |-> location, description |-> description,
     start |-> start, end |-> end, all_day |-> IsAllDay(start), calendar |-> calendar]

\* the event whose description is typed in
DescribedEvent(d) == Event(A, <<"&">>, <<>>, Date(d), Date(d + 1), W)

\* events of day d as fetch_events returns them for zone UTC: with and
\* without location, description and end
SectionEvents(d) ==
    {DescribedEvent(d),
     Event(UntitledEvent, <<>>, <<"a","\n","\n","<">>, Date(d), Date(d + 1), Unnamed),
     Event(A, <<"L">>, <<>>, Aware(d * DayLen, 0), None, W),
     Event(A, <<>>, <<" ","a"," ","b">>, Aware(d * DayLen + 1, 0), Aware(d * DayLen + 2, 0), Unnamed)}

DescChars == {"a", " ", "\n"}
RunLengths == {1, 2, PlainLimit, HtmlLimit - 1, HtmlLimit}
Run(c, n) == [i \in 1..n |-> c]

\* e["calendar"] for e in the events of all day_sections
RECURSIVE CalendarsOf(_)
CalendarsOf(events) ==
    IF events = <<>> THEN <<>>
    ELSE <<Head(events).calendar>> \o CalendarsOf(Tail(events))

RECURSIVE EventsOf(_)
EventsOf(day_sections) ==
    IF day_sections = <<>> THEN <<>> ELSE Head(day_sections)[2] \o EventsOf(Tail(day_sections))


RenderInit ==
    /\ r_pc = "input"
    /\ r_days = <<>>
    /\ r_runs = 0
    /\ r_html = NoDoc
    /\ r_plain = <<>>
    /\ f_pc = "idle" /\ f_tz = 0 /\ f_cals = <<>> /\ f_out = Acc(FALSE, <<>>)
    /\ pc = "idle" /\ args = NoArgs /\ tz = 0 /\ calendars = <<>> /\ store = <<>>
    /\ clock = 0 /\ today = NoDate /\ tomorrow = NoDate
    /\ today_events = <<>> /\ tomorrow_events = <<>> /\ returned = <<>>
    /\ now = None /\ days = <<>> /\ calendars_used = <<>>
    /\ html = NoDoc /\ plaintext = <<>> /\ sent = <<>> /\ exit = "none"

\* the caller adds a day section
AddDay ==
    /\ r_pc = "input"
    /\ r_runs = 0
    /\ Len(r_days) < Len(Labels)
    /\ r_days' = Append(r_days, <<Len(r_days) + 1, <<>>, Labels[Len(r_days) + 1]>>)
    /\ UNCHANGED <<r_pc, r_runs, r_html, r_plain, fvars, mvars>>

\* the caller adds an event to the last day section, keeping it sorted
AddEvent ==
    /\ r_pc = "input"
    /\ r_runs = 0
    /\ r_days # <<>>
    /\ LET n == Len(r_days)
       IN  /\ Len(r_days[n][2]) < MaxRows
           /\ \E e \in SectionEvents(r_days[n][1]) :
                /\ SortEvents(Append(r_days[n][2], e), 0) = Append(r_days[n][2], e)
                /\ r_days' = [r_days EXCEPT ![n][2] = Append(@, e)]
    /\ UNCHANGED <<r_pc, r_runs, r_html, r_plain, fvars, mvars>>

\* one more run of a character is typed into the description of the only
\* event of the first of two day_sections
ExtendDescription ==
    /\ r_pc = "input"
    /\ r_runs < MaxRuns
    /\ Len(r_days) = 2
    /\ Len(r_days[1][2]) = 1
    /\ r_days[2][2] = <<>>
    /\ r_runs = 0 => r_days[1][2][1] = DescribedEvent(r_days[1][1])
    /\ \E c \in DescChars, n \in RunLengths :
         r_days' = [r_days EXCEPT ![1][2][1].description = @ \o Run(c, n)]
    /\ r_runs' = r_runs + 1
    /\ UNCHANGED <<r_pc, r_html, r_plain, fvars, mvars>>

\* both renderers are called with the same day_sections
Render ==
    /\ r_pc = "input"
    /\ r_html' = render_html(r_days, TzName(0), <<>>, CalendarsOf(EventsOf(r_days)))
    /\ r_plain' = render_plaintext(r_days, TzName(0))
    /\ r_pc' = "rendered"
    /\ UNCHANGED <<r_days, r_runs, fvars, mvars>>

RenderNext == AddDay \/ AddEvent \/ ExtendDescription \/ Render


\* ------------------------------------------------ claims about the renderers
\* the description cell of an HTML row, as a list of none or one
DescriptionCells(row) == SelectSeq(row.parts, LAMBDA p : p.tag = "description")

\* text as it stands in the HTML: escaped, newlines as line breaks
Shown(t) == NewlinesToBr(esc(t))

\* the description of an event after strip() and newline collapsing
Collapsed(e) == CollapseNewlines(Strip(e.description))

\* the rendered events with a description: <<day, row>> index pairs
Described ==
    {<<i, j>> \in (1..Len(r_days)) \X (1..MaxRows) :
        j <= Len(r_days[i][2]) /\ r_days[i][2][j].description # <<>>}

\* the text of the description cell of row j of day i
DescriptionCell(i, j) == DescriptionCells(r_html.sections[i].rows[j])[1].text

\* C6 as stated: a description of at most 200 characters (after newline
\* collapsing) is rendered unmodified; a longer one is rendered as a prefix
\* of at most 200 characters followed by one ellipsis, and the prefix never
\* ends in the middle of a word.
C6_TruncationAtWordBoundary ==
    r_pc = "rendered" =>
        \A ij \in Described :
            LET c == Collapsed(r_days[ij[1]][2][ij[2]])
                cell == DescriptionCell(ij[1], ij[2])
                n == Len(cell) - 1
            IN  IF Len(c) <= HtmlLimit THEN cell = Shown(c)
                ELSE /\ n >= 1 /\ n <= HtmlLimit
                     /\ cell[n + 1] = Ellipsis
                     /\ SubSeq(cell, 1, n) = Shown(SubSeq(c, 1, n))
                     /\ IsSpace(c[n]) \/ IsSpace(c[n + 1])

\* C6 as amended: the prefix ends right before the last space character
\* among the first 200 characters; when these hold no space the prefix is
\* all 200 characters, wherever that cut falls.
C6_TruncationAtLastSpace ==
    r_pc = "rendered" =>
        \A ij \in Described :
            LET c == Collapsed(r_days[ij[1]][2][ij[2]])
                cell == DescriptionCell(ij[1], ij[2])
                n == Len(cell) - 1
            IN  IF Len(c) <= HtmlLimit THEN cell = Shown(c)
                ELSE /\ n >= 1 /\ n <= HtmlLimit
                     /\ cell[n + 1] = Ellipsis
                     /\ SubSeq(cell, 1, n) = Shown(SubSeq(c, 1, n))
                     /\ IF \E k \in 1..HtmlLimit : c[k] = " "
                          THEN /\ c[n + 1] = " "
                               /\ \A k \in (n + 2)..HtmlLimit : c[k] # " "
                          ELSE n = HtmlLimit

\* C6 witness: a description longer than 200 characters was cut at a space
\* that is not the 200th character.
C6_Witness ==
    /\ r_pc = "rendered"
    /\ \E ij \in Described :
         LET e == r_days[ij[1]][2][ij[2]]
         IN  /\ Len(Collapsed(e)) > HtmlLimit
             /\ Len(DescriptionCell(ij[1], ij[2])) < HtmlLimit
             /\ \E k \in 1..HtmlLimit : Collapsed(e)[k] = " "

\* what the HTML document selects, written as plaintext lines: per section
\* the heading, then per row the event (its time and summary) and the
\* lines of its detail column, or the placeholder
TimesOfRow(row) ==
    IF row.time[1] = "All day" THEN <<"All day">>
    ELSE [i \in 1..Len(row.time) |->
            IF row.time[i] = "(en dash)<br>" THEN "(en dash)" ELSE row.time[i]]

RowSelection(row) ==
    [k \in 1..Len(row.parts) |->
        IF row.parts[k].tag = "summary"
          THEN Line("event", TimesOfRow(row), row.parts[k].text)
          ELSE Line(row.parts[k].tag, <<>>, row.parts[k].text)]

RECURSIVE RowsSelection(_)
RowsSelection(rows) ==
    IF rows = <<>> THEN <<>> ELSE RowSelection(Head(rows)) \o RowsSelection(Tail(rows))

RECURSIVE HtmlSelection(_)
HtmlSelection(sections) ==
    IF sections = <<>> THEN <<>>
    ELSE <<Line("heading", <<Head(sections).date>>, Head(sections).label)>>
         \o RowsSelection(Head(sections).rows)
         \o HtmlSelection(Tail(sections))

\* what the plaintext selects: its lines without title, rules, blank lines
\* and the timezone line
PlainSelection(lines) ==
    SelectSeq(lines, LAMBDA l : l.tag \in {"heading", "placeholder", "event",
                                           "location", "description", "calendar"})

WithTag(lines, tag) == SelectSeq(lines, LAMBDA l : l.tag = tag)

\* the two documents select the same lines in the same order, and these are
\* the lines the day sections call for
SameSelection ==
    LET hs == HtmlSelection(r_html.sections)
        ps == PlainSelection(r_plain)
        events == EventsOf(r_days)
    IN  /\ Len(hs) = Len(ps)
        /\ \A k \in 1..Len(ps) :
             /\ hs[k].tag = ps[k].tag
             /\ hs[k].time = ps[k].time
             /\ ps[k].tag # "description" => hs[k].text = esc(ps[k].text)
        /\ WithTag(ps, "heading")
             = [i \in 1..Len(r_days) |-> Line("heading", <<DateStr(r_days[i][1])>>, r_days[i][3])]
        /\ Len(WithTag(ps, "placeholder"))
             = Cardinality({i \in 1..Len(r_days) : r_days[i][2] = <<>>})
        /\ [k \in 1..Len(events) |-> events[k].summary]
             = [k \in 1..Len(WithTag(ps, "event")) |-> WithTag(ps, "event")[k].text]
        /\ [k \in 1..Len(events) |-> events[k].calendar]
             = [k \in 1..Len(WithTag(ps, "calendar")) |-> WithTag(ps, "calendar")[k].text]
        /\ [k \in 1..Len(WithTag(ps, "location")) |-> WithTag(ps, "location")[k].text]
             = LET located == SelectSeq(events, LAMBDA e : e.location # <<>>)
               IN  [k \in 1..Len(located) |-> located[k].location]
        /\ Len(WithTag(ps, "description"))
             = Len(SelectSeq(events, LAMBDA e : e.description # <<>>))

\* the descriptions of the described events, in rendering order
Descriptions ==
    LET described == SelectSeq(EventsOf(r_days), LAMBDA e : e.description # <<>>)
    IN  [k \in 1..Len(described) |-> described[k].description]

\* C7 as stated: render_plaintext selects what render_html selects, and
\* shortens descriptions by the policy of the HTML renderer with its own
\* fixed length: newline collapsing, cut, break at the space before, ellipsis.
C7_PlaintextMirrorsHtml ==
    r_pc = "rendered" =>
        /\ SameSelection
        /\ \A k \in 1..Len(Descriptions) :
             WithTag(r_plain, "description")[k].text
               = TruncateDescription(Descriptions[k], PlainLimit)

\* C7 as amended: the same selection, but the plaintext description is the
\* stripped description cut to its first 150 characters: newlines are not
\* collapsed, the cut is not moved to a space and no ellipsis is appended.
C7_PlaintextSelection ==
    r_pc = "rendered" =>
        /\ SameSelection
        /\ \A k \in 1..Len(Descriptions) :
             LET text == WithTag(r_plain, "description")[k].text
                 full == Strip(Descriptions[k])
             IN  /\ Len(text) = (IF Len(full) < PlainLimit THEN Len(full) ELSE PlainLimit)
                 /\ text = SubSeq(full, 1, Len(text))

\* C7 witness: two day_sections, the second without events, the first with an event
\* that has a location and a description of more than 150 characters.
C7_Witness ==
    /\ r_pc = "rendered"
    /\ Len(r_days) = 2
    /\ r_days[2][2] = <<>>
    /\ \E j \in 1..Len(r_days[1][2]) :
         /\ r_days[1][2][j].location # <<>>
         /\ Len(Strip(r_days[1][2][j].description)) > PlainLimit

\* ===================================================================== main
\* entries the calendars hold for the two search windows together
MaxStored == 2

\* entries of day d in a calendar of the zone: one without start time, an
\* all-day one, a timed one without end at the start of the day (naive), a
\* timed one with an end one tick later (aware, UTC)
MainEntries(d, tzinfo) ==
    {Entry(A, <<>>, <<>>, None, None),
     Entry(A, <<>>, <<>>, Date(d), Date(d + 1)),
     Entry(A, <<>>, <<>>, Naive(d * DayLen), None),
     Entry(<<>>, <<>>, <<>>, Aware(d * DayLen - tzinfo, 0), Aware(d * DayLen - tzinfo + 1, 0))}

\* entries held by all calendars for both windows
Stored ==
    LET RECURSIVE Sum(_)
        Sum(i) == IF i = 0 THEN 0
                  ELSE Len(store[i][1]) + Len(store[i][2]) + Sum(i - 1)
    IN  Sum(Len(store))

\* the calendars as the search of window w (1: today, 2: tomorrow) meets them
Searched(w) == [i \in 1..Len(calendars) |-> Calendar(calendars[i], TRUE, store[i][w])]

\* the time of day of the clock, on the target date
NowOnTargetDate(instant, tzinfo) ==
    Aware((today * DayLen) + ((instant + tzinfo) % DayLen), tzinfo)

\* datetime.datetime.now(tz)
Now(instant, tzinfo) == Aware(instant + tzinfo, tzinfo)

\* e["end"] or e["start"]
EffectiveEnd(e) == IF e.end # None THEN e.end ELSE e.start

\* variant: the comparison uses the start also when there is an end
FilterUnfinishedByStart(events, at) ==
    SelectSeq(events, LAMBDA e : e.all_day \/ Instant(e.start) >= Instant(at))

\* the list comprehension of lines 479-482
FilterUnfinished(events, at) ==
    SelectSeq(events, LAMBDA e : e.all_day \/ Instant(EffectiveEnd(e)) >= Instant(at))

\* every order list(set) can give the elements of S
ListsOfSet(S) == {l \in [1..Cardinality(S) -> S] : Range(l) = S}

\* [c.name for c in calendars if c.name]
NamedCalendars(names) == SelectSeq(names, LAMBDA n : n # <<>>)

\* variant: the names of all named calendars, whatever the events
CalendarsUsedAll(events, names) == {NamedCalendars(names)}

\* list({e["calendar"] for e in all_events}) or [c.name for c in calendars if c.name]
CalendarsUsed(events, names) ==
    IF events # <<>> THEN ListsOfSet(Range(CalendarsOf(events)))
    ELSE {NamedCalendars(names)}

MainInit ==
    /\ pc = "resolve_date"
    /\ args \in [preview : BOOLEAN, date : {NoDate, 0, 2}]
    /\ tz \in TzOffsets
    /\ calendars \in {[i \in 1..NumCals |-> IF i = NumCals THEN n ELSE W] : n \in CalNames}
    /\ store = [i \in 1..NumCals |-> <<<<>>, <<>>>>]
    /\ clock = DayLen - tz
    /\ today = NoDate /\ tomorrow = NoDate
    /\ today_events = <<>> /\ tomorrow_events = <<>> /\ returned = <<>>
    /\ now = None /\ days = <<>> /\ calendars_used = <<>>
    /\ html = NoDoc /\ plaintext = <<>> /\ sent = <<>> /\ exit = "none"
    /\ f_pc = "idle" /\ f_tz = 0 /\ f_cals = <<>> /\ f_out = Acc(FALSE, <<>>)
    /\ r_pc = "idle" /\ r_days = <<>> /\ r_runs = 0 /\ r_html = NoDoc /\ r_plain = <<>>

\* lines 466-471
ResolveDate ==
    /\ pc = "resolve_date"
    /\ today' = (IF args.date # NoDate THEN args.date ELSE DateOf(clock, tz))
    /\ tomorrow' = today' + 1
    /\ pc' = "fetch_today"
    /\ UNCHANGED <<args, tz, calendars, store, clock, today_events, tomorrow_events,
                   returned, now, days, calendars_used, html, plaintext, sent, exit,
                   fvars, rvars>>

\* before the run searches, a calendar holds one more entry for one of the
\* two days
StoreEvent ==
    /\ pc = "fetch_today"
    /\ Stored < MaxStored
    /\ \E i \in 1..Len(store), w \in 1..2 :
         \E item \in MainEntries(today + w - 1, tz) :
            store' = [store EXCEPT ![i][w] = Append(@, item)]
    /\ UNCHANGED <<pc, args, tz, calendars, clock, today, tomorrow, today_events,
                   tomorrow_events, returned, now, days, calendars_used, html,
                   plaintext, sent, exit, fvars, rvars>>

\* line 474; the search takes no time or one tick; an exception leaves main
FetchToday ==
    /\ pc = "fetch_today"
    /\ LET r == fetch_events(Searched(1), tz)
       IN  IF r.raised
             THEN /\ pc' = "done" /\ exit' = "failed"
                  /\ UNCHANGED <<today_events, returned>>
             ELSE /\ pc' = "fetch_tomorrow" /\ exit' = exit
                  /\ today_events' = r.events
                  /\ returned' = Append(returned, r.events)
    /\ clock' \in {clock, clock + 1}
    /\ UNCHANGED <<args, tz, calendars, store, today, tomorrow, tomorrow_events,
                   now, days, calendars_used, html, plaintext, sent, fvars, rvars>>

\* line 475
FetchTomorrow ==
    /\ pc = "fetch_tomorrow"
    /\ LET r == fetch_events(Searched(2), tz)
       IN  IF r.raised
             THEN /\ pc' = "done" /\ exit' = "failed"
                  /\ UNCHANGED <<tomorrow_events, returned>>
             ELSE /\ pc' = "filter" /\ exit' = exit
                  /\ tomorrow_events' = r.events
                  /\ returned' = Append(returned, r.events)
    /\ clock' \in {clock, clock + 1}
    /\ UNCHANGED <<args, tz, calendars, store, today, tomorrow, today_events,
                   now, days, calendars_used, html, plaintext, sent, fvars, rvars>>

\* variant: the comprehension is applied to tomorrow_events as well
FilterBothDays ==
    /\ pc = "filter"
    /\ now' = Now(clock, tz)
    /\ today_events' = FilterUnfinished(today_events, now')
    /\ tomorrow_events' = FilterUnfinished(tomorrow_events, now')
    /\ pc' = "build"
    /\ UNCHANGED <<args, tz, calendars, store, clock, today, tomorrow,
                   returned, days, calendars_used, html, plaintext,
                   sent, exit, fvars, rvars>>

\* lines 478-482
Filter ==
    /\ pc = "filter"
    /\ now' = Now(clock, tz)
    /\ today_events' = FilterUnfinished(today_events, now')
    /\ pc' = "build"
    /\ UNCHANGED <<args, tz, calendars, store, clock, today, tomorrow,
                   tomorrow_events, returned, days, calendars_used, html, plaintext,
                   sent, exit, fvars, rvars>>

\* lines 486-493
Build ==
    /\ pc = "build"
    /\ days' = <<<<today, today_events, Today>>, <<tomorrow, tomorrow_events, Tomorrow>>>>
    /\ calendars_used' \in CalendarsUsed(today_events \o tomorrow_events, calendars)
    /\ pc' = "render"
    /\ UNCHANGED <<args, tz, calendars, store, clock, today, tomorrow, today_events,
                   tomorrow_events, returned, now, html, plaintext, sent, exit,
                   fvars, rvars>>

\* lines 495-496
RenderBoth ==
    /\ pc = "render"
    /\ html' = render_html(days, TzName(tz), <<>>, calendars_used)
    /\ plaintext' = render_plaintext(days, TzName(tz))
    /\ pc' = "deliver"
    /\ UNCHANGED <<args, tz, calendars, store, clock, today, tomorrow, today_events,
                   tomorrow_events, returned, now, days, calendars_used, sent, exit,
                   fvars, rvars>>

\* lines 498-500
Preview ==
    /\ pc = "deliver"
    /\ args.preview
    /\ exit' = "previewed"
    /\ pc' = "done"
    /\ UNCHANGED <<args, tz, calendars, store, clock, today, tomorrow, today_events,
                   tomorrow_events, returned, now, days, calendars_used, html,
                   plaintext, sent, fvars, rvars>>

\* variant: a failed send is tried once more
SendEmailRetry ==
    /\ pc = "deliver"
    /\ ~args.preview
    /\ Len(sent) < 2
    /\ sent' = Append(sent, [subject |-> DateStr(today), html |-> html,
                             plaintext |-> plaintext])
    /\ \E delivered \in BOOLEAN :
         IF delivered THEN exit' = "sent" /\ pc' = "done"
         ELSE IF Len(sent) = 0 THEN exit' = exit /\ pc' = pc
         ELSE exit' = "failed" /\ pc' = "done"
    /\ UNCHANGED <<args, tz, calendars, store, clock, today, tomorrow, today_events,
                   tomorrow_events, returned, now, days, calendars_used, html,
                   plaintext, fvars, rvars>>

\* lines 502-503 and send_email: the message is handed to the server, which
\* delivers it or raises; the exception leaves main
SendEmail ==
    /\ pc = "deliver"
    /\ ~args.preview
    /\ sent' = Append(sent, [subject |-> DateStr(today), html |-> html,
                             plaintext |-> plaintext])
    /\ \E delivered \in BOOLEAN : exit' = (IF delivered THEN "sent" ELSE "failed")
    /\ pc' = "done"
    /\ UNCHANGED <<args, tz, calendars, store, clock, today, tomorrow, today_events,
                   tomorrow_events, returned, now, days, calendars_used, html,
                   plaintext, fvars, rvars>>

Next ==
    \/ ResolveDate \/ StoreEvent \/ FetchToday \/ FetchTomorrow
    \/ Filter \/ Build \/ RenderBoth \/ Preview \/ SendEmail

\* ------------------------------------------------------ claims about main
\* the already-ended filter has run
Filtered == now # None

\* C2: the filter keeps every all-day event, keeps a timed event exactly
\* when its end (its start when it has no end) is at or after now, and
\* keeps the kept events in their order.
C2_FilterUnfinished ==
    Filtered =>
        LET before == returned[1]
            kept == {i \in 1..Len(before) :
                       \/ before[i].all_day
                       \/ /\ before[i].end # None
                          /\ Instant(before[i].end) >= Instant(now)
                       \/ /\ before[i].end = None
                          /\ Instant(before[i].start) >= Instant(now)}
        IN  /\ Len(today_events) = Cardinality(kept)
            /\ \A i \in kept :
                 today_events[Cardinality({j \in kept : j <= i})] = before[i]

\* C2 witness: of two timed events that began before now, the one that has
\* not ended was kept and the one without end was dropped.
C2_Witness ==
    /\ Filtered
    /\ Len(returned[1]) = 2
    /\ Len(today_events) = 1
    /\ today_events[1].end # None
    /\ Instant(today_events[1].start) < Instant(now)
    /\ \E i \in 1..2 : ~returned[1][i].all_day /\ returned[1][i].end = None

\* C3: the filter touches the Today list only; the Tomorrow section the
\* renderers are given, and render, is what fetch_events returned for the
\* following date.
C3_TomorrowUnfiltered ==
    /\ Len(returned) = 2 => tomorrow_events = returned[2]
    /\ days # <<>> =>
         /\ Len(days) = 2
         /\ days[2] = <<today + 1, returned[2], Tomorrow>>
    /\ html # NoDoc =>
         /\ html.sections[2] = render_day_section(returned[2], today + 1, Tomorrow)
         /\ plaintext = render_plaintext(<<days[1], <<today + 1, returned[2], Tomorrow>>>>,
                                         TzName(tz))

\* C3 witness: the Tomorrow section shows a timed event that had ended
\* before now.
C3_Witness ==
    /\ html # NoDoc
    /\ \E i \in 1..Len(returned[2]) :
         /\ ~returned[2][i].all_day
         /\ Instant(EffectiveEnd(returned[2][i])) < Instant(now)
         /\ Len(html.sections[2].rows) = Len(returned[2])

\* C8: the names given to render_html are those of the calendars of the
\* events of the filtered Today list and the Tomorrow list, or, when there
\* is no such event, those of all calendars that have a name; the footer
\* lists each once, in ascending order.
C8_CalendarsUsed ==
    /\ days # <<>> =>
         LET shown == days[1][2] \o days[2][2]
             present == {shown[k].calendar : k \in 1..Len(shown)}
         IN  Range(calendars_used)
               = (IF present # {} THEN present
                  ELSE {calendars[i] : i \in {k \in 1..Len(calendars) : calendars[k] # <<>>}})
    /\ html # NoDoc =>
         \E l \in ListsOfSet(Range(calendars_used)) :
            /\ html.calendars_list = [i \in 1..Len(l) |-> esc(l[i])]
            /\ \A i, j \in 1..Len(l) : i < j => StrLess(l[i], l[j])

\* C8 witness: a calendar whose only event the filter removed is not
\* listed, another calendar is.
C8_Witness ==
    /\ html # NoDoc
    /\ Len(html.calendars_list) = 1
    /\ \E i \in 1..Len(returned[1]) :
         returned[1][i].calendar \notin Range(calendars_used)

\* C9: send_email is called at most once, never with --preview, and with
\* the two documents rendered from the same days; after the call the run is
\* over, reported as sent only when the server took the message, as failed
\* when it raised.
C9_SentAtMostOnce ==
    /\ Len(sent) <= 1
    /\ args.preview => sent = <<>>
    /\ exit = "sent" => Len(sent) = 1
    /\ exit = "previewed" => sent = <<>>
    /\ sent # <<>> =>
         /\ pc = "done"
         /\ exit \in {"sent", "failed"}
         /\ days # <<>>
         /\ sent[1].html = html /\ html # NoDoc
         /\ sent[1].plaintext = plaintext /\ plaintext # <<>>
         /\ HtmlSelection(sent[1].html.sections)
              = HtmlSelection([i \in 1..2 |->
                                  render_day_section(days[i][2], days[i][1], days[i][3])])
         /\ PlainSelection(sent[1].plaintext)
              = PlainSelection(render_plaintext(days, TzName(tz)))

\* C9 witness: the server raised; the one call was the last thing the run
\* did.
C9_Witness ==
    /\ Len(sent) = 1
    /\ exit = "failed"
    /\ pc = "done"

\* C10: now is the clock reading taken after both fetches, whatever the
\* target date.  So for a date given with --date whose timed events had all
\* ended before that instant, Today holds the all-day events only; for a
\* target date that begins after that instant, Today loses no event.
C10_NowIsRealClock ==
    /\ pc \in {"resolve_date", "fetch_today", "fetch_tomorrow"} => ~Filtered
    /\ Filtered =>
         /\ Len(returned) = 2
         /\ Instant(now) = clock
         /\ now.off = tz
         /\ (/\ args.date # NoDate
             /\ \A i \in 1..Len(returned[1]) :
                  ~returned[1][i].all_day
                    => Instant(EffectiveEnd(returned[1][i])) < clock)
              => today_events = SelectSeq(returned[1], LAMBDA e : e.all_day)
         /\ today * DayLen - tz > clock => today_events = returned[1]

\* C10 witness: --date names a past day; its timed event is gone, its
\* all-day event stays.
C10_Witness ==
    /\ Filtered
    /\ args.date # NoDate
    /\ args.date < DateOf(clock, tz)
    /\ Len(returned[1]) = 2
    /\ Len(today_events) = 1
    /\ today_events[1].all_day

\* ========================================================= specifications
vars == <<fvars, rvars, mvars>>

\* one run of main
Spec == MainInit /\ [][Next]_vars

\* fetch_events called on the calendars of an account
SpecFetch == FetchInit /\ [][FetchNext]_vars

\* the two renderers called on the same day sections
SpecRender == RenderInit /\ [][RenderNext]_vars

====
